---- MODULE Spec2Model ----
(***************************************************************************)
(* Model of src/src/weapon/mod.rs: the weapon state machine (try_shoot,    *)
(* update, add_ammo, set_owner), the hit resolver ray_hit, the laser       *)
(* sight, the weapon container and the Visit (save / load) code.           *)
(*                                                                         *)
(* Units.  GameTime.elapsed and last_shot_time (f64 seconds) are counted   *)
(* in ticks of 0.05 s, so shoot_interval 0.15 is 3 and 0.25 is 5.  The     *)
(* muzzle-flash timer and dt (f32 seconds) are counted in units of         *)
(* 0.025 s, so 0.075 is 3.  The recoil offset (z of a Vector3<f32>) is     *)
(* counted in hundredths, so -0.05 is -5.                                  *)
(***************************************************************************)
EXTENDS Integers, Sequences, FiniteSets, TLC

VARIABLES
    self,       \* the Weapon the state machine is about
    scene,      \* what Weapon code reads and writes in the Scene graph
    events,     \* the messages sent on weapon.sender, oldest first
    hist,       \* history of the run: fire times, ammo added, scenario monitor,
                \* dt of the updates since the last fire
    lastOp,     \* the call that produced this state (time: its time or dt)
    panicked,   \* a Rust panic ended the program
    container,  \* the WeaponContainer (its Pool<Weapon>)
    issued,     \* history: handle -> model node of the weapon it was issued for
    freed,      \* history: the handles passed to free
    file,       \* what the Visitor holds after a save
    saved,      \* history: the container as it was when it was saved
    rh,         \* the last ray_hit call: its arguments and its result
    call        \* the last call of a function that is checked on its own

vars == <<self, scene, events, hist, lastOp, panicked,
          container, issued, freed, file, saved, rh, call>>

(***************************************************************************)
(* Bounds of the model.                                                    *)
(***************************************************************************)
MaxTime == 6        \* try_shoot is called with times 0 .. MaxTime
MaxAmmo == 1        \* a restored weapon starts with ammo 0 .. MaxAmmo
MaxAdded == 2       \* add_ammo adds at most this much in one run
MaxUpdates == 2     \* the muzzle-flash timer is followed down to -MaxUpdates

Times == 0 .. MaxTime
Amounts == 1 .. 2
Dts == 1 .. 2

(***************************************************************************)
(* Handles.  Handle::NONE is index 0 with the invalid generation 0.        *)
(***************************************************************************)
NONE == [index |-> 0, generation |-> 0]

is_some(handle) == handle # NONE

ActorHandle(i) == [index |-> i, generation |-> 1]

\* The actors of the model.
ActorHandles == {ActorHandle(1), ActorHandle(2)}

\* The handle a weapon is given to try_shoot as self_handle.
SelfHandle == [index |-> 0, generation |-> 1]

(***************************************************************************)
(* WeaponKind, WeaponDefinition.                                           *)
(***************************************************************************)
WeaponKind == {"M4", "Ak47", "PlasmaRifle"}

id(kind) ==
    CASE kind = "M4" -> 0
      [] kind = "Ak47" -> 1
      [] kind = "PlasmaRifle" -> 2

Ok(v) == [ok |-> TRUE, value |-> v]
Err(e) == [ok |-> FALSE, value |-> e]

\* Mutant of WeaponKind_new: an unknown id gives the first kind.
WeaponKind_new_lenient(n) ==
    CASE n = 1 -> Ok("Ak47")
      [] n = 2 -> Ok("PlasmaRifle")
      [] OTHER -> Ok("M4")

WeaponKind_new(n) ==
    CASE n = 0 -> Ok("M4")
      [] n = 1 -> Ok("Ak47")
      [] n = 2 -> Ok("PlasmaRifle")
      [] OTHER -> Err("unknown weapon kind")

get_definition(kind) ==
    CASE kind = "M4" ->
            [model |-> "data/models/m4.FBX",
             shot_sound |-> "data/sounds/m4_shot.ogg",
             ammo |-> 200,
             projectile |-> [type |-> "Ray", damage |-> 15],
             shoot_interval |-> 3]
      [] kind = "Ak47" ->
            [model |-> "data/models/ak47.FBX",
             shot_sound |-> "data/sounds/ak47.ogg",
             ammo |-> 200,
             projectile |-> [type |-> "Ray", damage |-> 17],
             shoot_interval |-> 3]
      [] kind = "PlasmaRifle" ->
            [model |-> "data/models/plasma_rifle.fbx",
             shot_sound |-> "data/sounds/plasma_shot.ogg",
             ammo |-> 100,
             projectile |-> [type |-> "Projectile", kind |-> "Plasma"],
             shoot_interval |-> 5]

(***************************************************************************)
(* Weapon.  model is the scene node of the weapon's model (one per         *)
(* weapon); muzzle_flash is whether the handle found by name is some.      *)
(***************************************************************************)
Weapon_default ==
    [kind |-> "M4",
     model |-> 0,
     muzzle_flash |-> FALSE,
     offset |-> 0,
     dest_offset |-> 0,
     last_shot_time |-> 0,
     owner |-> NONE,
     ammo |-> 250,
     muzzle_flash_timer |-> 0,
     definition |-> get_definition("M4"),
     sender |-> FALSE]

\* Weapon::new: node is the instantiated model, has_flash whether the model
\* holds a node named MuzzleFlash.
Weapon_new(kind, node, has_flash) ==
    [Weapon_default EXCEPT
        !.kind = kind,
        !.model = node,
        !.definition = get_definition(kind),
        !.muzzle_flash = has_flash,
        !.ammo = get_definition(kind).ammo,
        !.sender = TRUE]

(***************************************************************************)
(* Vector3<f32>.  The components of a direction are counted in units of    *)
(* f32::EPSILON (2^-23), so 1.0 is One; the directions of the model lie on *)
(* an axis, where the norm is the sum of the absolute components and a     *)
(* division by the norm is exact.  Points are counted in units of 1.0.     *)
(***************************************************************************)
One == 8388608

EPSILON == 1

Vector3_z == <<0, 0, One>>

Origin == <<0, 0, 0>>

Abs(x) == IF x < 0 THEN -x ELSE x

norm(v) == Abs(v[1]) + Abs(v[2]) + Abs(v[3])

\* v / n, a direction again.
unscale(v, n) == [i \in 1 .. 3 |-> (v[i] \div n) * One]

\* point + direction.scale(k), for a normalized direction.
add_scaled(point, direction, k) ==
    [i \in 1 .. 3 |-> point[i] + (direction[i] \div One) * k]

\* Option<T>: None, or Some(v).
None == <<>>

Some(v) == <<v>>

\* Matrix::try_normalize: None when the norm is at most min_norm.
try_normalize(v, min_norm) ==
    IF norm(v) <= min_norm THEN None ELSE Some(unscale(v, norm(v)))

(***************************************************************************)
(* The part of the Scene the weapon code reads and writes: the visibility  *)
(* of the muzzle flash and of the shot light, the local position of the    *)
(* model node, the laser sight's ray scale (z) and tip position (in        *)
(* tenths, along the ray), and the look vector and global position of the  *)
(* node the weapon shoots from.                                            *)
(***************************************************************************)
Scene_new ==
    [muzzle_flash_visible |-> TRUE,
     shot_light_visible |-> FALSE,
     model_position |-> 0,
     ray_scale |-> 1,
     tip_position |-> 0,
     look |-> Vector3_z,
     shot_position |-> Origin]

\* The look vector and the global position of the node the weapon shoots
\* from.
get_shot_direction(sc) == sc.look

get_shot_position(sc) == sc.shot_position

(***************************************************************************)
(* Weapon::try_shoot.  The result holds the weapon and the scene           *)
(* afterwards, the messages sent in order, and whether sender.unwrap()     *)
(* panicked.                                                               *)
(***************************************************************************)
PlaySound(path) == [type |-> "PlaySound", path |-> path]

\* Mutant of ShotMessage: the shot event carries no weapon handle.
ShotMessage_without_handle(projectile, self_handle, position, direction) ==
    IF projectile.type = "Projectile"
    THEN [type |-> "CreateProjectile", kind |-> projectile.kind,
          position |-> position, direction |-> direction,
          owner |-> NONE]
    ELSE [type |-> "ShootRay", weapon |-> NONE,
          begin |-> position,
          end |-> add_scaled(position, direction, 1000),
          damage |-> projectile.damage]

ShotMessage(projectile, self_handle, position, direction) ==
    IF projectile.type = "Projectile"
    THEN [type |-> "CreateProjectile", kind |-> projectile.kind,
          position |-> position, direction |-> direction,
          owner |-> self_handle]
    ELSE [type |-> "ShootRay", weapon |-> self_handle,
          begin |-> position,
          end |-> add_scaled(position, direction, 1000),
          damage |-> projectile.damage]

\* Mutant of shot_direction: the direction is used as it comes.
shot_direction_as_given(sc, direction) ==
    IF direction = None THEN get_shot_direction(sc) ELSE direction[1]

\* The direction of the shot: the caller's, or else the look vector,
\* normalized, or else the z axis.
shot_direction(sc, direction) ==
    LET given == IF direction = None THEN get_shot_direction(sc)
                 ELSE direction[1]
        normalized == try_normalize(given, EPSILON)
    IN  IF normalized = None THEN Vector3_z ELSE normalized[1]

\* Mutant of CanShoot: the ammo is not looked at.
CanShoot_ignores_ammo(w, time) ==
    time - w.last_shot_time >= w.definition.shoot_interval

\* Mutant of CanShoot: the cooldown is not looked at.
CanShoot_ignores_cooldown(w, time) ==
    w.ammo # 0

\* Mutant of CanShoot: the elapsed time itself is compared with the
\* interval, not the time since the last shot.
CanShoot_elapsed_only(w, time) ==
    w.ammo # 0 /\ time >= w.definition.shoot_interval

\* Mutant of CanShoot: the distance between the two times is compared,
\* whichever is the later.
CanShoot_either_way(w, time) ==
    /\ w.ammo # 0
    /\ \/ time - w.last_shot_time >= w.definition.shoot_interval
       \/ w.last_shot_time - time >= w.definition.shoot_interval

\* The condition of try_shoot.
CanShoot(w, time) ==
    w.ammo # 0 /\ time - w.last_shot_time >= w.definition.shoot_interval

\* The body of try_shoot's if.
shoot(w, sc, self_handle, time, direction) ==
    LET w1 == [w EXCEPT !.ammo = @ - 1,
                        !.offset = -5,
                        !.last_shot_time = time]
    IN  IF ~w.sender
        THEN [weapon |-> w1, scene |-> sc, sent |-> <<>>, panic |-> TRUE]
        ELSE [weapon |-> IF w.muzzle_flash
                         THEN [w1 EXCEPT !.muzzle_flash_timer = 3]
                         ELSE w1,
              scene |-> IF w.muzzle_flash
                        THEN [sc EXCEPT !.muzzle_flash_visible = TRUE,
                                        !.shot_light_visible = TRUE]
                        ELSE sc,
              sent |-> <<PlaySound(w.definition.shot_sound),
                         ShotMessage(w.definition.projectile, self_handle,
                                     get_shot_position(sc),
                                     shot_direction(sc, direction))>>,
              panic |-> FALSE]

\* Mutant of try_shoot: the recoil offset is set before the condition is
\* looked at.
try_shoot_recoil_first(w, sc, self_handle, time, direction) ==
    IF CanShoot(w, time)
    THEN shoot(w, sc, self_handle, time, direction)
    ELSE [weapon |-> [w EXCEPT !.offset = -5], scene |-> sc, sent |-> <<>>,
          panic |-> FALSE]

try_shoot(w, sc, self_handle, time, direction) ==
    IF CanShoot(w, time)
    THEN shoot(w, sc, self_handle, time, direction)
    ELSE [weapon |-> w, scene |-> sc, sent |-> <<>>, panic |-> FALSE]

(***************************************************************************)
(* u32 arithmetic at its width.  A u32 is held as two 16-bit limbs, hi and *)
(* lo, its value being hi * 2^16 + lo.                                     *)
(***************************************************************************)
Limb == 65536

u32(n) == [hi |-> n \div Limb, lo |-> n % Limb]

\* The value of a u32 below 2^31.
u32_value(a) == a.hi * Limb + a.lo

u32_MAX == [hi |-> Limb - 1, lo |-> Limb - 1]

u32_less(a, b) == a.hi < b.hi \/ (a.hi = b.hi /\ a.lo < b.lo)

\* a + b: the sum modulo 2^32, and whether the true sum is above u32::MAX.
u32_add(a, b) ==
    LET lo == a.lo + b.lo
        hi == a.hi + b.hi + lo \div Limb
    IN  [sum |-> [hi |-> hi % Limb, lo |-> lo % Limb],
         overflow |-> hi >= Limb]

\* self.ammo += amount on u32 values: what the builds can do.  With
\* overflow checks (debug profile) an overflowing += panics and ammo is not
\* assigned; without them (release profile) the sum wraps.
add_ammo_u32(ammo, amount) ==
    LET r == u32_add(ammo, amount)
    IN  IF r.overflow
        THEN {[ammo |-> ammo, panic |-> TRUE],
              [ammo |-> r.sum, panic |-> FALSE]}
        ELSE {[ammo |-> r.sum, panic |-> FALSE]}

\* Mutant of add_ammo: the ammo is capped at the definition's ammo.
add_ammo_capped(w, amount) ==
    [w EXCEPT !.ammo = IF @ + amount > w.definition.ammo
                       THEN w.definition.ammo ELSE @ + amount]

\* Weapon::add_ammo on a weapon whose ammo, as in every run of the weapon
\* state machine, stays far below the u32 range.
add_ammo(w, amount) ==
    [w EXCEPT !.ammo = u32_value(u32_add(u32(@), u32(amount)).sum)]

set_owner(w, owner) == [w EXCEPT !.owner = owner]

(***************************************************************************)
(* The physics world and the actor registry as the weapon code sees them.  *)
(* Collider c belongs to body c; actor i has body i, whose first collider  *)
(* is collider i; body 3 is level geometry.  ColliderHandle::default() is  *)
(* collider 0, which no intersection has.                                  *)
(***************************************************************************)
Colliders == {1, 2, 3}

DefaultCollider == 0

collider_parent(c) == c

get_body(actor_handle) == actor_handle.index

first_collider(body) == body

\* An intersection of a ray cast at distance d with collider c.
Intersection(c, d) ==
    [collider |-> c, toi |-> d, position |-> d,
     normal |-> c, feature |-> 10 * c + d]

\* What cast_ray with sort_results gives: at most n intersections, each
\* with a collider of cs and a distance of dists, nearest first.
SortedQueries(n, cs, dists) ==
    UNION {
        {[i \in 1 .. k |-> Intersection(c[i], d[i])] :
            c \in [1 .. k -> cs],
            d \in {e \in [1 .. k -> dists] :
                        \A i \in 1 .. k - 1 : e[i] <= e[i + 1]}}
        : k \in 0 .. n}

\* The index of the first intersection whose collider is not ignored, as
\* iter().filter(|i| i.collider != ignored).next() finds it; 0 when none.
first_not_ignored(intersections, ignored) ==
    LET kept == {i \in 1 .. Len(intersections) :
                    intersections[i].collider # ignored}
    IN  IF kept = {} THEN 0
        ELSE CHOOSE i \in kept : \A j \in kept : i <= j

(***************************************************************************)
(* LaserSight::update on the intersections its ray cast found.             *)
(***************************************************************************)
\* Mutant of LaserSight_update: the nearest intersection is used, ignored
\* or not.
LaserSight_update_unfiltered(sc, direction, intersections, ignore_collider) ==
    IF intersections # <<>>
    THEN [sc EXCEPT !.ray_scale = intersections[1].toi,
                    !.tip_position = 10 * intersections[1].position
                                       - norm(direction) \div One]
    ELSE sc

\* The tip is put at result.position - direction.scale(0.1): along the ray,
\* in tenths, the length of the direction before the position.
LaserSight_update(sc, direction, intersections, ignore_collider) ==
    LET n == first_not_ignored(intersections, ignore_collider)
    IN  IF n # 0
        THEN [sc EXCEPT !.ray_scale = intersections[n].toi,
                        !.tip_position = 10 * intersections[n].position
                                           - norm(direction) \div One]
        ELSE sc

\* Vector3Ext::follow on one coordinate, fraction 0.2.
follow(value, dest) == value + (dest - value) \div 5

(***************************************************************************)
(* Weapon::update.  actors is the set of handles the ActorContainer        *)
(* holds; intersections is what the laser sight's ray cast finds.  The     *)
(* result holds the weapon and the scene afterwards and the collider that  *)
(* was passed to the laser sight.                                          *)
(***************************************************************************)
\* Mutant of ignored_collider: the registry is not asked for the owner.
ignored_collider_unchecked(w, actors) ==
    first_collider(get_body(w.owner))

ignored_collider(w, actors) ==
    IF w.owner \in actors
    THEN first_collider(get_body(w.owner))
    ELSE DefaultCollider

\* Mutant of update: the cooldown is cleared once the flash has run out.
update_clears_cooldown(w, sc, actors, dt, intersections) ==
    LET offset == follow(w.offset, w.dest_offset)
        timer == w.muzzle_flash_timer - dt
        sc1 == [sc EXCEPT !.model_position = offset]
        sc2 == IF timer <= 0 /\ w.muzzle_flash
               THEN [sc1 EXCEPT !.muzzle_flash_visible = FALSE,
                                !.shot_light_visible = FALSE]
               ELSE sc1
    IN  [weapon |-> [w EXCEPT !.offset = offset,
                              !.muzzle_flash_timer = timer,
                              !.last_shot_time = IF timer <= 0 THEN 0 ELSE @],
         scene |-> LaserSight_update(sc2, get_shot_direction(sc2),
                                     intersections,
                                     ignored_collider(w, actors)),
         ignored |-> ignored_collider(w, actors)]

\* Mutant of update: the flash is hidden whatever the timer is.
update_hides_at_once(w, sc, actors, dt, intersections) ==
    LET offset == follow(w.offset, w.dest_offset)
        timer == w.muzzle_flash_timer - dt
        sc1 == [sc EXCEPT !.model_position = offset]
        sc2 == IF w.muzzle_flash
               THEN [sc1 EXCEPT !.muzzle_flash_visible = FALSE,
                                !.shot_light_visible = FALSE]
               ELSE sc1
    IN  [weapon |-> [w EXCEPT !.offset = offset,
                              !.muzzle_flash_timer = timer],
         scene |-> LaserSight_update(sc2, get_shot_direction(sc2),
                                     intersections,
                                     ignored_collider(w, actors)),
         ignored |-> ignored_collider(w, actors)]

update(w, sc, actors, dt, intersections) ==
    LET offset == follow(w.offset, w.dest_offset)
        timer == w.muzzle_flash_timer - dt
        sc1 == [sc EXCEPT !.model_position = offset]
        sc2 == IF timer <= 0 /\ w.muzzle_flash
               THEN [sc1 EXCEPT !.muzzle_flash_visible = FALSE,
                                !.shot_light_visible = FALSE]
               ELSE sc1
    IN  [weapon |-> [w EXCEPT !.offset = offset,
                              !.muzzle_flash_timer = timer],
         scene |-> LaserSight_update(sc2, get_shot_direction(sc2),
                                     intersections,
                                     ignored_collider(w, actors)),
         ignored |-> ignored_collider(w, actors)]

(***************************************************************************)
(* Pool<Weapon>, the generation-checked arena behind WeaponContainer       *)
(* (sections 3, 4.4 and 9 of the specification: a handle is an index plus  *)
(* a per-slot generation compared at access time; spawn takes a free or a  *)
(* new slot and bumps its generation; free empties the slot and puts it   *)
(* on the free stack).  A slot's payload is <<>> or <<weapon>>.            *)
(* An access through an invalid handle panics.                             *)
(***************************************************************************)
Pool_new == [records |-> <<>>, free_stack |-> <<>>]

Pool_is_valid_handle(pool, handle) ==
    /\ handle.index + 1 \in 1 .. Len(pool.records)
    /\ pool.records[handle.index + 1].payload # <<>>
    /\ pool.records[handle.index + 1].generation = handle.generation

Pool_spawn(pool, payload) ==
    IF pool.free_stack # <<>>
    THEN LET index == pool.free_stack[Len(pool.free_stack)]
             generation == pool.records[index + 1].generation + 1
         IN  [pool |-> [records |-> [pool.records EXCEPT ![index + 1] =
                                        [generation |-> generation,
                                         payload |-> <<payload>>]],
                        free_stack |-> SubSeq(pool.free_stack, 1,
                                              Len(pool.free_stack) - 1)],
              handle |-> [index |-> index, generation |-> generation]]
    ELSE [pool |-> [pool EXCEPT !.records =
                        Append(@, [generation |-> 1, payload |-> <<payload>>])],
          handle |-> [index |-> Len(pool.records), generation |-> 1]]

Pool_free(pool, handle) ==
    IF Pool_is_valid_handle(pool, handle)
    THEN [pool |-> [records |-> [pool.records EXCEPT ![handle.index + 1] =
                                    [@ EXCEPT !.payload = <<>>]],
                    free_stack |-> Append(pool.free_stack, handle.index)],
          panic |-> FALSE]
    ELSE [pool |-> pool, panic |-> TRUE]

\* Pool's Index: the payload as <<weapon>>, or a panic.
Pool_borrow(pool, handle) ==
    IF Pool_is_valid_handle(pool, handle)
    THEN [value |-> pool.records[handle.index + 1].payload, panic |-> FALSE]
    ELSE [value |-> <<>>, panic |-> TRUE]

(***************************************************************************)
(* WeaponContainer.                                                        *)
(***************************************************************************)
WeaponContainer_new == Pool_new

add(weapons, w) ==
    LET r == Pool_spawn(weapons, w)
    IN  [container |-> r.pool, handle |-> r.handle]

\* Mutant of contains: the slot is looked at, the generation is not.
contains_occupied_slot(weapons, handle) ==
    /\ handle.index + 1 \in 1 .. Len(weapons.records)
    /\ weapons.records[handle.index + 1].payload # <<>>

contains(weapons, handle) == Pool_is_valid_handle(weapons, handle)

free(weapons, handle) ==
    LET r == Pool_free(weapons, handle)
    IN  [container |-> r.pool, panic |-> r.panic]

index(weapons, handle) == Pool_borrow(weapons, handle)

\* Pool's iter_mut: the occupied slots, by rising index, from slot i on.
RECURSIVE Pool_iter_from(_, _)
Pool_iter_from(pool, i) ==
    IF i > Len(pool.records) THEN <<>>
    ELSE IF pool.records[i].payload = <<>> THEN Pool_iter_from(pool, i + 1)
    ELSE <<i>> \o Pool_iter_from(pool, i + 1)

Pool_iter_mut(pool) == Pool_iter_from(pool, 1)

\* The for loop of WeaponContainer::update over the slots left: each
\* weapon is updated on the scene the weapons before it left.  The result
\* holds the container and the scene afterwards and the indices of the
\* slots whose weapon was updated, in order.
RECURSIVE update_each(_, _, _, _, _, _, _)
update_each(weapons, sc, actors, dt, intersections, slots, updated) ==
    IF slots = <<>>
    THEN [container |-> weapons, scene |-> sc, updated |-> updated]
    ELSE LET i == Head(slots)
             r == update(weapons.records[i].payload[1], sc, actors, dt,
                         intersections)
         IN  update_each([weapons EXCEPT !.records[i].payload = <<r.weapon>>],
                         r.scene, actors, dt, intersections, Tail(slots),
                         Append(updated, i - 1))

\* Mutant of WeaponContainer_update: the loop ends after one weapon.
WeaponContainer_update_one(weapons, sc, actors, dt, intersections) ==
    update_each(weapons, sc, actors, dt, intersections,
                IF Pool_iter_mut(weapons) = <<>> THEN <<>>
                ELSE <<Head(Pool_iter_mut(weapons))>>, <<>>)

WeaponContainer_update(weapons, sc, actors, dt, intersections) ==
    update_each(weapons, sc, actors, dt, intersections,
                Pool_iter_mut(weapons), <<>>)

(***************************************************************************)
(* ray_hit on what physics.cast_ray found (query, nearest first).  actors  *)
(* is what actors.pair_iter() gives, in order: the actors' handles, each   *)
(* with get_body().  The result holds the Hit as <<>> or <<hit>>, whether  *)
(* weapons[weapon] was evaluated, and whether it panicked.                 *)
(***************************************************************************)
Hit(actor, who, i) ==
    [actor |-> actor, who |-> who, position |-> i.position,
     normal |-> i.normal, collider |-> i.collider, feature |-> i.feature]

\* Mutant of resolve_hit: the weapon handle is used without asking whether
\* it is some.
resolve_hit_any_weapon(hit, weapon, weapons, actors) ==
    LET body == collider_parent(hit.collider)
        matching == {a \in 1 .. Len(actors) : get_body(actors[a]) = body}
        firing == index(weapons, weapon)
        others_hit == {a \in matching : firing.value[1].owner # actors[a]}
    IN  IF matching # {} /\ firing.panic
        THEN [hit |-> <<>>, indexed |-> TRUE, panic |-> TRUE]
        ELSE IF others_hit # {}
        THEN LET a == CHOOSE x \in others_hit : \A y \in others_hit : x <= y
             IN  [hit |-> <<Hit(actors[a], firing.value[1].owner, hit)>>,
                  indexed |-> TRUE, panic |-> FALSE]
        ELSE [hit |-> <<Hit(NONE, NONE, hit)>>,
              indexed |-> matching # {}, panic |-> FALSE]

\* Mutant of resolve_hit: the owner of the weapon is not left out.
resolve_hit_hits_owner(hit, weapon, weapons, actors) ==
    LET body == collider_parent(hit.collider)
        matching == {a \in 1 .. Len(actors) :
                        get_body(actors[a]) = body /\ is_some(weapon)}
        firing == index(weapons, weapon)
    IN  IF matching # {} /\ firing.panic
        THEN [hit |-> <<>>, indexed |-> TRUE, panic |-> TRUE]
        ELSE IF matching # {}
        THEN LET a == CHOOSE x \in matching : \A y \in matching : x <= y
             IN  [hit |-> <<Hit(actors[a], firing.value[1].owner, hit)>>,
                  indexed |-> TRUE, panic |-> FALSE]
        ELSE [hit |-> <<Hit(NONE, NONE, hit)>>,
              indexed |-> FALSE, panic |-> FALSE]

\* The body of the for loop over the hits, for the first hit kept.
resolve_hit(hit, weapon, weapons, actors) ==
    LET body == collider_parent(hit.collider)
        matching == {a \in 1 .. Len(actors) :
                        get_body(actors[a]) = body /\ is_some(weapon)}
        firing == index(weapons, weapon)
        others_hit == {a \in matching : firing.value[1].owner # actors[a]}
    IN  IF matching # {} /\ firing.panic
        THEN [hit |-> <<>>, indexed |-> TRUE, panic |-> TRUE]
        ELSE IF others_hit # {}
        THEN LET a == CHOOSE x \in others_hit : \A y \in others_hit : x <= y
             IN  [hit |-> <<Hit(actors[a], firing.value[1].owner, hit)>>,
                  indexed |-> TRUE, panic |-> FALSE]
        ELSE [hit |-> <<Hit(NONE, NONE, hit)>>,
              indexed |-> matching # {}, panic |-> FALSE]

NoHit == [hit |-> <<>>, indexed |-> FALSE, panic |-> FALSE]

\* Mutant of ray_hit: the ignored collider is not filtered out.
ray_hit_unfiltered(query, weapon, weapons, actors, ignored) ==
    IF query = <<>> THEN NoHit
    ELSE resolve_hit(query[1], weapon, weapons, actors)

\* Mutant of ray_hit: a hit on the weapon's owner gives no hit.
ray_hit_none_on_owner(query, weapon, weapons, actors, ignored) ==
    LET n == first_not_ignored(query, ignored)
        r == resolve_hit(query[n], weapon, weapons, actors)
    IN  IF n = 0 THEN NoHit
        ELSE IF r.indexed /\ ~r.panic /\ r.hit[1].actor = NONE THEN NoHit
        ELSE r

ray_hit(query, weapon, weapons, actors, ignored) ==
    LET n == first_not_ignored(query, ignored)
    IN  IF n = 0 THEN NoHit
        ELSE resolve_hit(query[n], weapon, weapons, actors)

(***************************************************************************)
(* Visit.  A region of the Visitor is a record of the named fields; the    *)
(* same visit function writes the fields when saving and reads them when   *)
(* loading.  Numbers and handles are stored as they are.  The fields of    *)
(* the weapon that are scene nodes only (shot_point, shot_light,           *)
(* flash_light, laser_sight) are visited the same way as model.            *)
(***************************************************************************)
WeaponKind_visit_write(kind) == id(kind)

WeaponKind_visit_read(n) == WeaponKind_new(n)

Weapon_visit_write(w) ==
    [KindId |-> WeaponKind_visit_write(w.kind),
     Model |-> w.model,
     Offset |-> w.offset,
     DestOffset |-> w.dest_offset,
     LastShotTime |-> w.last_shot_time,
     Owner |-> w.owner,
     Ammo |-> w.ammo,
     MuzzleFlash |-> w.muzzle_flash,
     MuzzleFlashTimer |-> w.muzzle_flash_timer]

\* Mutant of Weapon_visit_read: the definition is not looked up again.
Weapon_visit_read_keeps_definition(w, region) ==
    LET kind == WeaponKind_visit_read(region.KindId)
    IN  IF ~kind.ok THEN Err(kind.value)
        ELSE Ok([w EXCEPT !.kind = kind.value,
                          !.model = region.Model,
                          !.offset = region.Offset,
                          !.dest_offset = region.DestOffset,
                          !.last_shot_time = region.LastShotTime,
                          !.owner = region.Owner,
                          !.ammo = region.Ammo,
                          !.muzzle_flash = region.MuzzleFlash,
                          !.muzzle_flash_timer = region.MuzzleFlashTimer])

\* The fields Weapon::visit visits, in its order.
WeaponFields ==
    <<"KindId", "Model", "Offset", "DestOffset", "LastShotTime", "Owner",
      "Ammo", "MuzzleFlash", "MuzzleFlashTimer">>

\* One line of Weapon::visit when reading: the field name of the region is
\* read into the weapon.  WeaponKind::visit assigns the kind only when
\* WeaponKind::new gave Ok, and the line after it sets the definition.
visit_field(w, name, region) ==
    CASE name = "KindId" ->
            LET kind == WeaponKind_visit_read(region.KindId)
            IN  IF ~kind.ok THEN Err(kind.value)
                ELSE Ok([w EXCEPT !.kind = kind.value,
                                  !.definition = get_definition(kind.value)])
      [] name = "Model" -> Ok([w EXCEPT !.model = region.Model])
      [] name = "Offset" -> Ok([w EXCEPT !.offset = region.Offset])
      [] name = "DestOffset" -> Ok([w EXCEPT !.dest_offset = region.DestOffset])
      [] name = "LastShotTime" ->
            Ok([w EXCEPT !.last_shot_time = region.LastShotTime])
      [] name = "Owner" -> Ok([w EXCEPT !.owner = region.Owner])
      [] name = "Ammo" -> Ok([w EXCEPT !.ammo = region.Ammo])
      [] name = "MuzzleFlash" ->
            Ok([w EXCEPT !.muzzle_flash = region.MuzzleFlash])
      [] name = "MuzzleFlashTimer" ->
            Ok([w EXCEPT !.muzzle_flash_timer = region.MuzzleFlashTimer])

\* Weapon::visit when reading, from field number n on: the weapon as the
\* call leaves it, the VisitResult, and the fields it read.  The ? after a
\* field returns the error of that field at once.
RECURSIVE visit_from(_, _, _, _)
visit_from(w, region, n, read) ==
    IF n > Len(WeaponFields)
    THEN [weapon |-> w, result |-> Ok("unit"), read |-> read]
    ELSE LET r == visit_field(w, WeaponFields[n], region)
         IN  IF ~r.ok
             THEN [weapon |-> w, result |-> r,
                   read |-> Append(read, WeaponFields[n])]
             ELSE visit_from(r.value, region, n + 1,
                             Append(read, WeaponFields[n]))

Weapon_visit(w, region) == visit_from(w, region, 1, <<>>)

\* Weapon::visit when reading, on the weapon w the pool made by default:
\* the weapon read, or the error.
Weapon_visit_read(w, region) ==
    LET r == Weapon_visit(w, region)
    IN  IF r.result.ok THEN Ok(r.weapon) ELSE r.result

\* Pool's Visit (section 6: the backing arena, slot contents and generation
\* counters): each payload is visited as a Weapon, made by default when
\* reading.
Pool_visit_write(pool) ==
    [records |-> [i \in 1 .. Len(pool.records) |->
                    [generation |-> pool.records[i].generation,
                     payload |-> IF pool.records[i].payload = <<>> THEN <<>>
                                 ELSE <<Weapon_visit_write(
                                            pool.records[i].payload[1])>>]],
     free_stack |-> pool.free_stack]

Pool_visit_read(region) ==
    LET read(i) == Weapon_visit_read(Weapon_default,
                                     region.records[i].payload[1])
        stored == {i \in 1 .. Len(region.records) :
                     region.records[i].payload # <<>>}
    IN  IF \E i \in stored : ~read(i).ok
        THEN Err("unknown weapon kind")
        ELSE Ok([records |-> [i \in 1 .. Len(region.records) |->
                                [generation |-> region.records[i].generation,
                                 payload |-> IF i \in stored
                                             THEN <<read(i).value>>
                                             ELSE <<>>]],
                 free_stack |-> region.free_stack])

WeaponContainer_visit_write(weapons) == Pool_visit_write(weapons)

WeaponContainer_visit_read(region) == Pool_visit_read(region)

(***************************************************************************)
(* The weapon state machine: one weapon, its scene and its event channel,  *)
(* driven by calls of try_shoot, update, add_ammo and set_owner in any     *)
(* order and with any arguments.                                           *)
(***************************************************************************)

\* The times of the scenario the scenario monitor follows: 0.0, 0.1, 0.2.
\* The directions try_shoot is given in the weapon state machine: none, or
\* a zero vector.
ShotDirections == {None, Some(Origin)}

ScenarioTimes == <<0, 2, 4>>

\* What the laser sight's ray cast may find in one update.
LaserQueries == SortedQueries(1, {1, 3}, {2})

\* The owners set_owner is given: none, or actor 1.
Owners == {NONE, ActorHandle(1)}

\* What the ActorContainer may hold in one update: actor 1, or nothing (the
\* handle of actor 1 is then no longer valid).
Registries == {{ActorHandle(1)}, {}}

\* hist.pair: "none", or what the last call did when it and the call
\* before it were try_shoot calls with now2 - now1 < shoot_interval and the
\* call before it fired: "noop" or "fire".
NoPair == "none"

NoFile == [written |-> FALSE]

NoCall == [called |-> FALSE]

\* The variables of the container and of ray_hit, which the weapon state
\* machine leaves alone.
others == <<container, issued, freed, file, saved, rh, call>>

OthersIdle ==
    /\ container = WeaponContainer_new
    /\ issued = {}
    /\ freed = {}
    /\ file = NoFile
    /\ saved = WeaponContainer_new
    /\ rh = NoCall
    /\ call = NoCall

\* A weapon as Weapon::new makes it (ammo = definition.ammo), or one that
\* was never fired and holds ammo 0 .. MaxAmmo (restored by Visit from a
\* save, its sender set again); last_shot_time is 0.0 in both.
Init ==
    /\ \E kind \in WeaponKind, has_flash \in BOOLEAN :
         \E ammo \in {get_definition(kind).ammo} \cup (0 .. MaxAmmo) :
            /\ self = [Weapon_new(kind, 1, has_flash) EXCEPT !.ammo = ammo]
            /\ hist = [fires |-> <<>>, start |-> ammo, added |-> 0,
                       scen |-> 0, scen_shots |-> <<>>, pair |-> NoPair,
                       since |-> 0]
    /\ scene = Scene_new
    /\ events = <<>>
    /\ lastOp = [op |-> "new", time |-> 0, shot |-> FALSE]
    /\ panicked = FALSE
    /\ OthersIdle

TryShoot(time, direction) ==
    /\ ~panicked
    /\ LET r == try_shoot(self, scene, SelfHandle, time, direction)
           fired == r.sent # <<>>
           follows == /\ hist.scen \in 0 .. Len(ScenarioTimes) - 1
                      /\ time = ScenarioTimes[hist.scen + 1]
       IN  /\ self' = r.weapon
           /\ scene' = r.scene
           /\ events' = events \o r.sent
           /\ panicked' = r.panic
           /\ hist' = [hist EXCEPT
                         !.fires = IF fired THEN Append(@, time) ELSE @,
                         !.since = IF fired THEN 0 ELSE @,
                         !.scen = IF follows THEN @ + 1 ELSE -1,
                         !.scen_shots = IF follows THEN Append(@, fired)
                                        ELSE <<>>,
                         !.pair = IF /\ lastOp.op = "try_shoot"
                                     /\ lastOp.shot
                                     /\ time - lastOp.time
                                          < self.definition.shoot_interval
                                  THEN IF fired THEN "fire" ELSE "noop"
                                  ELSE NoPair]
           /\ lastOp' = [op |-> "try_shoot", time |-> time, shot |-> fired]
    /\ UNCHANGED others

AddAmmo(amount) ==
    /\ ~panicked
    /\ hist.added + amount <= MaxAdded
    /\ self' = add_ammo(self, amount)
    /\ hist' = [hist EXCEPT !.added = @ + amount, !.scen = -1,
                            !.scen_shots = <<>>, !.pair = NoPair]
    /\ lastOp' = [op |-> "add_ammo", time |-> 0, shot |-> FALSE]
    /\ UNCHANGED <<scene, events, panicked, others>>

SetOwner(owner) ==
    /\ ~panicked
    /\ self' = set_owner(self, owner)
    /\ hist' = [hist EXCEPT !.scen = -1, !.scen_shots = <<>>,
                            !.pair = NoPair]
    /\ lastOp' = [op |-> "set_owner", time |-> 0, shot |-> FALSE]
    /\ UNCHANGED <<scene, events, panicked, others>>

Update(dt, actors, intersections) ==
    /\ ~panicked
    /\ self.muzzle_flash_timer - dt >= -MaxUpdates
    /\ LET r == update(self, scene, actors, dt, intersections)
       IN  /\ self' = r.weapon
           /\ scene' = r.scene
    /\ hist' = [hist EXCEPT !.scen = -1, !.scen_shots = <<>>,
                            !.pair = NoPair,
                            !.since = IF self.muzzle_flash THEN @ + dt ELSE @]
    /\ lastOp' = [op |-> "update", time |-> dt, shot |-> FALSE]
    /\ UNCHANGED <<events, panicked, others>>

Next ==
    \/ \E time \in Times, direction \in ShotDirections :
          TryShoot(time, direction)
    \/ \E amount \in Amounts : AddAmmo(amount)
    \/ \E owner \in Owners : SetOwner(owner)
    \/ \E dt \in Dts, actors \in Registries, q \in LaserQueries :
          Update(dt, actors, q)

Spec == Init /\ [][Next]_vars

(***************************************************************************)
(* The hit resolver: ray_hit called with any query, firing weapon and      *)
(* ignored collider, on a container that holds one weapon.                 *)
(***************************************************************************)

\* What actors.pair_iter() gives: both actors.
ActorRegistry == <<ActorHandle(1), ActorHandle(2)>>

\* What the ray cast of ray_hit may find.
RayQueries == SortedQueries(3, Colliders, {2, 5})

\* The weapon handles ray_hit is given: none, or the firing weapon's.
FiringHandles == {NONE, SelfHandle}

\* The weapon variables, which ray_hit and the container leave alone.
WeaponIdle ==
    /\ self = Weapon_default
    /\ scene = Scene_new
    /\ events = <<>>
    /\ hist = [fires |-> <<>>, start |-> 0, added |-> 0,
               scen |-> -1, scen_shots |-> <<>>, pair |-> NoPair, since |-> 0]

InitRay ==
    /\ WeaponIdle
    /\ lastOp = [op |-> "new", time |-> 0, shot |-> FALSE]
    /\ panicked = FALSE
    /\ \E owner \in ActorHandles \cup {NONE} :
          container = add(WeaponContainer_new,
                          set_owner(Weapon_new("M4", 1, TRUE), owner)).container
    /\ issued = {}
    /\ freed = {}
    /\ file = NoFile
    /\ saved = WeaponContainer_new
    /\ rh = NoCall
    /\ call = NoCall

RayHit(query, weapon, ignored) ==
    /\ ~panicked
    /\ ~rh.called
    /\ LET r == ray_hit(query, weapon, container, ActorRegistry, ignored)
       IN  /\ rh' = [called |-> TRUE, query |-> query, weapon |-> weapon,
                     ignored |-> ignored, result |-> r]
           /\ panicked' = r.panic
    /\ lastOp' = [op |-> "ray_hit", time |-> 0, shot |-> FALSE]
    /\ UNCHANGED <<self, scene, events, hist, container, issued, freed,
                   file, saved, call>>

NextRay ==
    \E query \in RayQueries, weapon \in FiringHandles,
       ignored \in Colliders \cup {DefaultCollider} :
        RayHit(query, weapon, ignored)

SpecRay == InitRay /\ [][NextRay]_vars

(***************************************************************************)
(* The weapon container: weapons are added and freed, looked up through    *)
(* any handle ever issued, and the container is saved and loaded again.    *)
(***************************************************************************)
MaxAdds == 2        \* add is called at most this often in one run

\* What the laser sights' ray casts find in a pool update.
PoolQueries == {<<>>, <<Intersection(3, 2)>>}

\* A weapon that has an owner, has fired once and was updated once.
UsedWeapon(w) ==
    update(try_shoot(set_owner(w, ActorHandle(1)), Scene_new, NONE, 6,
                     None).weapon,
           Scene_new, {}, 1, <<>>).weapon

\* The weapons add is given: new ones, and used ones.
AddedWeapon(kind, used, node) ==
    IF used THEN UsedWeapon(Weapon_new(kind, node, TRUE))
    ELSE Weapon_new(kind, node, TRUE)

IssuedHandles == {i.handle : i \in issued}

InitPool ==
    /\ WeaponIdle
    /\ lastOp = [op |-> "new", time |-> 0, shot |-> FALSE]
    /\ panicked = FALSE
    /\ container = WeaponContainer_new
    /\ issued = {}
    /\ freed = {}
    /\ file = NoFile
    /\ saved = WeaponContainer_new
    /\ rh = NoCall
    /\ call = NoCall

weapon_vars == <<self, scene, events, hist, rh, call>>

Add(kind, used) ==
    /\ ~panicked
    /\ ~file.written
    /\ Cardinality(issued) < MaxAdds
    /\ LET node == Cardinality(issued) + 1
           r == add(container, AddedWeapon(kind, used, node))
       IN  /\ container' = r.container
           /\ issued' = issued \cup {[handle |-> r.handle, model |-> node]}
    /\ lastOp' = [op |-> "add", time |-> 0, shot |-> FALSE]
    /\ UNCHANGED <<panicked, freed, file, saved, weapon_vars>>

Free(handle) ==
    /\ ~panicked
    /\ ~file.written
    /\ LET r == free(container, handle)
       IN  /\ container' = r.container
           /\ panicked' = r.panic
           /\ freed' = IF r.panic THEN freed ELSE freed \cup {handle}
    /\ lastOp' = [op |-> "free", time |-> 0, shot |-> FALSE]
    /\ UNCHANGED <<issued, file, saved, weapon_vars>>

Index(handle) ==
    /\ ~panicked
    /\ ~file.written
    /\ panicked' = index(container, handle).panic
    /\ lastOp' = [op |-> "index", time |-> 0, shot |-> FALSE]
    /\ UNCHANGED <<container, issued, freed, file, saved, weapon_vars>>

\* The container is saved; the save is then loaded.
Save ==
    /\ ~panicked
    /\ ~file.written
    /\ file' = [written |-> TRUE,
                region |-> WeaponContainer_visit_write(container)]
    /\ saved' = container
    /\ lastOp' = [op |-> "save", time |-> 0, shot |-> FALSE]
    /\ UNCHANGED <<container, panicked, issued, freed, weapon_vars>>

Load ==
    /\ ~panicked
    /\ file.written
    /\ LET r == WeaponContainer_visit_read(file.region)
       IN  /\ container' = IF r.ok THEN r.value ELSE WeaponContainer_new
           /\ lastOp' = [op |-> IF r.ok THEN "load" ELSE "load_failed",
                         time |-> 0, shot |-> FALSE]
    /\ file' = NoFile
    /\ UNCHANGED <<panicked, issued, freed, saved, weapon_vars>>

\* The weapons in the container.
LiveWeapons(weapons) ==
    {weapons.records[i].payload[1] :
        i \in {j \in 1 .. Len(weapons.records) :
                    weapons.records[j].payload # <<>>}}

UpdateAll(dt, actors, intersections) ==
    /\ ~panicked
    /\ ~file.written
    /\ \A w \in LiveWeapons(container) :
          w.muzzle_flash_timer - dt >= -MaxUpdates
    /\ LET r == WeaponContainer_update(container, scene, actors, dt,
                                       intersections)
       IN  /\ container' = r.container
           /\ scene' = r.scene
           /\ lastOp' = [op |-> "update_all", time |-> dt, shot |-> FALSE,
                         updated |-> r.updated]
    /\ UNCHANGED <<self, events, hist, rh, call, panicked, issued, freed,
                   file, saved>>

NextPool ==
    \/ \E kind \in WeaponKind, used \in BOOLEAN : Add(kind, used)
    \/ \E handle \in IssuedHandles \cup {NONE} : Free(handle)
    \/ \E handle \in IssuedHandles \cup {NONE} : Index(handle)
    \/ Save
    \/ Load

SpecPool == InitPool /\ [][NextPool]_vars

\* The frames of a container: weapons are added and freed, and the
\* container's update is called.
NextFrames ==
    \/ \E used \in BOOLEAN : Add("M4", used)
    \/ \E handle \in IssuedHandles : Free(handle)
    \/ \E dt \in Dts, q \in PoolQueries : UpdateAll(dt, {}, q)

SpecFrames == InitPool /\ [][NextFrames]_vars

(***************************************************************************)
(* Reading one weapon: Weapon::visit reads a region, whose kind id may be  *)
(* any u32, into a weapon.                                                 *)
(***************************************************************************)
MaxKindId == 4      \* the kind ids read are 0 .. MaxKindId

KindIds == 0 .. MaxKindId

\* The weapons a region is written from, and the weapons read into.
VisitedWeapons ==
    {AddedWeapon(kind, used, 1) : kind \in WeaponKind, used \in BOOLEAN}

InitVisit ==
    /\ self \in VisitedWeapons \cup {Weapon_default}
    /\ scene = Scene_new
    /\ events = <<>>
    /\ hist = [fires |-> <<>>, start |-> 0, added |-> 0,
               scen |-> -1, scen_shots |-> <<>>, pair |-> NoPair, since |-> 0]
    /\ lastOp = [op |-> "new", time |-> 0, shot |-> FALSE]
    /\ panicked = FALSE
    /\ OthersIdle

ReadWeapon(written, kind_id) ==
    /\ ~call.called
    /\ LET region == [Weapon_visit_write(written) EXCEPT !.KindId = kind_id]
           r == Weapon_visit(self, region)
       IN  /\ self' = r.weapon
           /\ call' = [called |-> TRUE, region |-> region, before |-> self,
                       result |-> r.result, read |-> r.read]
    /\ lastOp' = [op |-> "visit", time |-> 0, shot |-> FALSE]
    /\ UNCHANGED <<scene, events, hist, panicked, container, issued, freed,
                   file, saved, rh>>

NextVisit ==
    \E written \in VisitedWeapons, kind_id \in KindIds :
        ReadWeapon(written, kind_id)

SpecVisit == InitVisit /\ [][NextVisit]_vars

(***************************************************************************)
(* add_ammo over the whole u32 range: one call, with any ammo and amount.  *)
(***************************************************************************)

\* The limbs the ammo and the amount are made of: small ones, a
\* definition's ammo, and the largest.
AmmoLimbs == {0, 1, 200, Limb - 1}

AmmoValues == {[hi |-> h, lo |-> l] : h \in {0, 1, Limb - 1}, l \in AmmoLimbs}

InitAmmo ==
    /\ WeaponIdle
    /\ lastOp = [op |-> "new", time |-> 0, shot |-> FALSE]
    /\ panicked = FALSE
    /\ container = WeaponContainer_new
    /\ issued = {}
    /\ freed = {}
    /\ file = NoFile
    /\ saved = WeaponContainer_new
    /\ rh = NoCall
    /\ \E ammo \in AmmoValues : call = [called |-> FALSE, ammo |-> ammo]

AddAmmo32(amount) ==
    /\ ~call.called
    /\ \E r \in add_ammo_u32(call.ammo, amount) :
          /\ call' = [called |-> TRUE, ammo |-> r.ammo, before |-> call.ammo,
                      amount |-> amount]
          /\ panicked' = r.panic
    /\ lastOp' = [op |-> "add_ammo", time |-> 0, shot |-> FALSE]
    /\ UNCHANGED <<self, scene, events, hist, container, issued, freed,
                   file, saved, rh>>

NextAmmo == \E amount \in AmmoValues : AddAmmo32(amount)

SpecAmmo == InitAmmo /\ [][NextAmmo]_vars

(***************************************************************************)
(* One try_shoot with any direction: the caller gives none, a degenerate   *)
(* one or a proper one, and the look vector of the weapon's node is a unit *)
(* vector, a degenerate one or a scaled one.                               *)
(***************************************************************************)
Looks == {Vector3_z, Origin, <<0, 0, EPSILON>>, <<2 * One, 0, 0>>}

CallerDirections ==
    {None, Some(Origin), Some(<<EPSILON, 0, 0>>), Some(<<0, 2 * EPSILON, 0>>),
     Some(<<One, 0, 0>>), Some(<<0, 0, -3 * One>>)}

\* The times of the call: before and after the first cooldown has passed.
ShootTimes == {0, 3, 5}

InitShoot ==
    /\ \E kind \in WeaponKind, has_flash \in BOOLEAN, look \in Looks :
          /\ self = Weapon_new(kind, 1, has_flash)
          /\ scene = [Scene_new EXCEPT !.look = look]
    /\ events = <<>>
    /\ hist = [fires |-> <<>>, start |-> 0, added |-> 0,
               scen |-> -1, scen_shots |-> <<>>, pair |-> NoPair, since |-> 0]
    /\ lastOp = [op |-> "new", time |-> 0, shot |-> FALSE]
    /\ panicked = FALSE
    /\ OthersIdle

ShootOnce(time, direction) ==
    /\ ~call.called
    /\ LET r == try_shoot(self, scene, SelfHandle, time, direction)
       IN  /\ self' = r.weapon
           /\ scene' = r.scene
           /\ events' = r.sent
           /\ panicked' = r.panic
           /\ call' = [called |-> TRUE, time |-> time,
                       direction |-> direction, before |-> self]
           /\ lastOp' = [op |-> "try_shoot", time |-> time,
                         shot |-> r.sent # <<>>]
    /\ UNCHANGED <<hist, container, issued, freed, file, saved, rh>>

NextShoot ==
    \E time \in ShootTimes, direction \in CallerDirections :
        ShootOnce(time, direction)

SpecShoot == InitShoot /\ [][NextShoot]_vars

(***************************************************************************)
(* One update: Weapon::update of a weapon with any owner on any registry   *)
(* of actors, or LaserSight::update with any collider to ignore.           *)
(***************************************************************************)

\* What the laser sight's ray cast may find.
UpdateQueries == SortedQueries(2, Colliders, {2, 5})

\* The scene as Weapon::new leaves it, or with the laser sight in the pose
\* of an earlier frame.
UpdateScenes ==
    {[sc EXCEPT !.look = look] :
        sc \in {Scene_new, [Scene_new EXCEPT !.ray_scale = 5,
                                             !.tip_position = 49]},
        look \in {Vector3_z, <<0, 0, 2 * One>>}}

InitUpdate ==
    /\ \E owner \in ActorHandles \cup {NONE},
          used \in BOOLEAN, has_flash \in BOOLEAN :
          self = [set_owner(AddedWeapon("M4", used, 1), owner)
                    EXCEPT !.muzzle_flash = has_flash]
    /\ scene \in UpdateScenes
    /\ events = <<>>
    /\ hist = [fires |-> <<>>, start |-> 0, added |-> 0,
               scen |-> -1, scen_shots |-> <<>>, pair |-> NoPair, since |-> 0]
    /\ lastOp = [op |-> "new", time |-> 0, shot |-> FALSE]
    /\ panicked = FALSE
    /\ OthersIdle

WeaponUpdate(dt, actors, intersections) ==
    /\ ~call.called
    /\ LET r == update(self, scene, actors, dt, intersections)
       IN  /\ self' = r.weapon
           /\ scene' = r.scene
           /\ call' = [called |-> TRUE, fn |-> "update", dt |-> dt,
                       actors |-> actors, intersections |-> intersections,
                       ignored |-> r.ignored, before |-> self,
                       scene_before |-> scene]
    /\ lastOp' = [op |-> "update", time |-> dt, shot |-> FALSE]
    /\ UNCHANGED <<events, hist, panicked, container, issued, freed, file,
                   saved, rh>>

LaserSightUpdate(intersections, ignore_collider) ==
    /\ ~call.called
    /\ scene' = LaserSight_update(scene, get_shot_direction(scene),
                                  intersections, ignore_collider)
    /\ call' = [called |-> TRUE, fn |-> "laser", dt |-> 0, actors |-> {},
                intersections |-> intersections, ignored |-> ignore_collider,
                before |-> self, scene_before |-> scene]
    /\ lastOp' = [op |-> "laser", time |-> 0, shot |-> FALSE]
    /\ UNCHANGED <<self, events, hist, panicked, container, issued, freed,
                   file, saved, rh>>

NextUpdate ==
    \/ \E dt \in Dts, actors \in SUBSET ActorHandles, q \in UpdateQueries :
          WeaponUpdate(dt, actors, q)
    \/ \E q \in UpdateQueries, c \in Colliders \cup {DefaultCollider} :
          LaserSightUpdate(q, c)

SpecUpdate == InitUpdate /\ [][NextUpdate]_vars

(***************************************************************************)
(* The claims about the weapon state machine, checked under Spec.          *)
(***************************************************************************)

\* The states of section 4.1, for a call at time now.
Ready(w, now) ==
    w.ammo > 0 /\ now - w.last_shot_time >= get_definition(w.kind).shoot_interval

Empty(w) == w.ammo = 0

\* The step is a call of try_shoot.
IsTryShoot == lastOp'.op = "try_shoot"

\* C1: ammo is never negative, and a try_shoot call on an Empty weapon, at
\* any time, emits no event and leaves ammo and last_shot_time unchanged.
C1_EmptyNeverFires ==
    /\ [](self.ammo >= 0)
    /\ [][(IsTryShoot /\ Empty(self)) =>
            /\ events' = events
            /\ self'.ammo = self.ammo
            /\ self'.last_shot_time = self.last_shot_time]_vars

\* C1 witness: try_shoot was called on an Empty weapon whose cooldown had
\* passed, after the weapon had fired its last round.
C1_Witness ==
    /\ lastOp.op = "try_shoot"
    /\ self.ammo = 0
    /\ hist.fires # <<>>
    /\ lastOp.time - self.last_shot_time
         >= self.definition.shoot_interval

\* The step is the second of two consecutive try_shoot calls with
\* now2 - now1 < shoot_interval.
IsSecondOfPair ==
    /\ lastOp.op = "try_shoot"
    /\ lastOp'.op = "try_shoot"
    /\ lastOp'.time - lastOp.time < get_definition(self.kind).shoot_interval

\* C2 as stated: two consecutive calls of try_shoot with
\* now2 - now1 < shoot_interval produce exactly one fire, the first call.
C2_ExactlyOneFire ==
    [][IsSecondOfPair => (lastOp.shot /\ ~lastOp'.shot)]_vars

\* C2 amended: two consecutive calls of try_shoot with
\* now2 - now1 < shoot_interval produce at most one fire, and a try_shoot
\* call on a Ready weapon fires: so they produce exactly one fire, the
\* first call, when the weapon is Ready at now1.
C2_AtMostOneFire ==
    /\ [][IsSecondOfPair => ~(lastOp.shot /\ lastOp'.shot)]_vars
    /\ [][(IsTryShoot /\ Ready(self, lastOp'.time)) => lastOp'.shot]_vars

\* C2 witness: of two such calls the first fired and the second did not.
C2_Witness ==
    hist.pair = "noop" /\ lastOp.op = "try_shoot" /\ ~lastOp.shot

\* The scenario's weapon: shoot_interval 0.15, created with ammo 1.
ScenarioWeapon ==
    self.definition.shoot_interval = 3 /\ hist.start = 1

\* C3 as stated: the newly created scenario weapon fires at t = 0.0 (ammo
\* becomes 0, the shot's events are emitted), and the calls at t = 0.1 and
\* t = 0.2 are no-ops.
C3_Scenario ==
    (ScenarioWeapon /\ hist.scen >= 1) =>
        /\ hist.scen_shots[1]
        /\ self.ammo = 0
        /\ Len(events) = 2
        /\ \A i \in 2 .. hist.scen : ~hist.scen_shots[i]

\* C4: any two fires of the weapon are at least shoot_interval apart.
C4_FiresSpaced ==
    \A i, j \in 1 .. Len(hist.fires) :
        i < j => hist.fires[j] - hist.fires[i]
                    >= get_definition(self.kind).shoot_interval

\* C4 witness: the weapon fired twice, with an update and an add_ammo in
\* the run.
C4_Witness ==
    Len(hist.fires) >= 2 /\ hist.added > 0 /\ self.muzzle_flash_timer < 3

\* C5: a try_shoot call on a weapon that is not Ready changes no field of
\* the weapon, nothing in the scene, and emits no event.
C5_NoOpUnlessReady ==
    [][(IsTryShoot /\ ~Ready(self, lastOp'.time)) =>
        /\ self' = self
        /\ scene' = scene
        /\ events' = events]_vars

\* C5 witness: try_shoot was called on a weapon that was cooling down, its
\* muzzle flash still running.
C5_Witness ==
    /\ lastOp.op = "try_shoot"
    /\ self.ammo > 0
    /\ hist.fires # <<>>
    /\ self.muzzle_flash_timer > 0
    /\ lastOp.time - self.last_shot_time
         < self.definition.shoot_interval

\* The shot event the definition of kind asks for, for the weapon handle.
ExpectedShot(kind, handle) ==
    LET projectile == get_definition(kind).projectile
    IN  IF projectile.type = "Projectile"
        THEN [type |-> "CreateProjectile", kind |-> projectile.kind,
              owner |-> handle]
        ELSE [type |-> "ShootRay", weapon |-> handle,
              damage |-> projectile.damage]

\* What a shot event says of its kind, its weapon and its damage.
ShotOf(event) ==
    IF event.type = "CreateProjectile"
    THEN [type |-> event.type, kind |-> event.kind, owner |-> event.owner]
    ELSE [type |-> event.type, weapon |-> event.weapon,
          damage |-> event.damage]

\* C6: a try_shoot call on a Ready weapon takes one round, sets
\* last_shot_time to the call's time and appends two events, PlaySound and
\* then the definition's shot event carrying the weapon's own handle; so
\* the channel holds two events per fire, sound then shot.
C6_FireEffects ==
    /\ [][(IsTryShoot /\ Ready(self, lastOp'.time)) =>
            /\ self'.ammo = self.ammo - 1
            /\ self'.last_shot_time = lastOp'.time
            /\ Len(events') = Len(events) + 2
            /\ SubSeq(events', 1, Len(events)) = events
            /\ events'[Len(events) + 1].type = "PlaySound"
            /\ ShotOf(events'[Len(events) + 2])
                 = ExpectedShot(self.kind, SelfHandle)]_vars
    /\ [](/\ Len(events) = 2 * Len(hist.fires)
          /\ \A i \in 1 .. Len(hist.fires) :
                /\ events[2 * i - 1].type = "PlaySound"
                /\ ShotOf(events[2 * i])
                     = ExpectedShot(self.kind, SelfHandle))

\* C6 witness: the weapon fired twice, the second time after more ammo came.
C6_Witness ==
    lastOp.shot /\ Len(events) = 4 /\ hist.added > 0 /\ self.ammo = 0


(***************************************************************************)
(* The claims about the hit resolver (SpecRay).                            *)
(***************************************************************************)

\* The entries of the last query that the filter keeps.
Qualifying == {i \in 1 .. Len(rh.query) : rh.query[i].collider # rh.ignored}

\* The nearest of them: the query is sorted, so the one of least index.
Nearest == CHOOSE i \in Qualifying : \A j \in Qualifying : i <= j

\* The owner of the firing weapon of the last call.
FiringOwner == index(container, rh.weapon).value[1].owner

\* The actors whose body the collider c belongs to.
ActorsOf(c) == {a \in ActorHandles : get_body(a) = collider_parent(c)}

\* C7: when ray_hit is called with a firing weapon and some entry of the
\* sorted query has a collider other than the ignored one, the Hit returned
\* is at the first such entry (its position, normal, collider and feature);
\* it names the actor of that entry's body when that actor is not the
\* weapon's owner, and it is environment-classified (actor = none) at that
\* same entry when the body is the owner's or no actor's: a farther entry is
\* never used instead.
C7_NearestQualifying ==
    (rh.called /\ is_some(rh.weapon) /\ Qualifying # {}) =>
        /\ ~rh.result.panic
        /\ Len(rh.result.hit) = 1
        /\ LET e == rh.query[Nearest]
               h == rh.result.hit[1]
           IN  /\ h.position = e.position
               /\ h.normal = e.normal
               /\ h.collider = e.collider
               /\ h.feature = e.feature
               /\ \A a \in ActorsOf(e.collider) :
                     IF a # FiringOwner THEN h.actor = a ELSE h.actor = NONE
               /\ ActorsOf(e.collider) = {} => h.actor = NONE

\* C7 witness: the nearest entry kept is on the body of the weapon's owner
\* and a farther entry is on an enemy's body; the Hit is
\* environment-classified at the nearer entry.
C7_Witness ==
    /\ rh.called
    /\ rh.weapon = SelfHandle
    /\ FiringOwner = ActorHandle(1)
    /\ rh.query = <<Intersection(1, 2), Intersection(2, 5)>>
    /\ rh.ignored = DefaultCollider
    /\ rh.result.hit = <<Hit(NONE, NONE, Intersection(1, 2))>>

\* C8: ray_hit returns no hit exactly when the query is empty or every
\* entry's collider is the ignored collider; in every other case it returns
\* a Hit.
C8_NoHitIffNothingQualifies ==
    rh.called =>
        /\ ~rh.result.panic
        /\ (rh.result.hit = <<>>) <=>
              (\A i \in 1 .. Len(rh.query) :
                    rh.query[i].collider = rh.ignored)

\* C8 witness: a query with entries, all of them on the ignored collider,
\* gave no hit.
C8_Witness ==
    /\ rh.called
    /\ Len(rh.query) = 2
    /\ \A i \in 1 .. 2 : rh.query[i].collider = rh.ignored
    /\ rh.result.hit = <<>>

(***************************************************************************)
(* The claims about the weapon container (SpecPool).                       *)
(***************************************************************************)

\* C9: after any adds and frees, a handle that was freed is not contained
\* and indexing through it fails, also once a later add has put a weapon in
\* the same slot; and a handle that is contained resolves to the weapon it
\* was issued for.
C9_StaleHandles ==
    \A i \in issued :
        /\ i.handle \in freed =>
              /\ ~contains(container, i.handle)
              /\ index(container, i.handle).panic
        /\ contains(container, i.handle) =>
              /\ ~index(container, i.handle).panic
              /\ index(container, i.handle).value[1].model = i.model

\* C9 witness: a freed handle and a live handle issued later for the same
\* slot.
C9_Witness ==
    \E i \in issued, j \in issued :
        /\ i.handle \in freed
        /\ j.handle # i.handle
        /\ j.handle.index = i.handle.index
        /\ contains(container, j.handle)

\* C10: after a container is saved and loaded, every handle that was live
\* when it was saved is live, and its weapon has the same kind, ammo, owner,
\* last_shot_time and muzzle_flash_timer; the weapon's definition is the one
\* get_definition gives for the restored kind.
C10_RoundTrip ==
    lastOp.op = "load" =>
        \A h \in IssuedHandles :
            contains(saved, h) =>
                /\ contains(container, h)
                /\ LET a == index(saved, h).value[1]
                       b == index(container, h).value[1]
                   IN  /\ b.kind = a.kind
                       /\ b.ammo = a.ammo
                       /\ b.owner = a.owner
                       /\ b.last_shot_time = a.last_shot_time
                       /\ b.muzzle_flash_timer = a.muzzle_flash_timer
                       /\ b.definition = get_definition(b.kind)

\* C10 witness: a used plasma rifle was live when a container with a freed
\* slot was saved, and the container was loaded.
C10_Witness ==
    /\ lastOp.op = "load"
    /\ freed # {}
    /\ \E h \in IssuedHandles :
          /\ contains(saved, h)
          /\ index(saved, h).value[1].kind = "PlasmaRifle"
          /\ index(saved, h).value[1].owner = ActorHandle(1)
          /\ index(saved, h).value[1].muzzle_flash_timer # 0
          /\ index(saved, h).value[1].ammo # get_definition("PlasmaRifle").ammo


(***************************************************************************)
(* The claims about reading a weapon (SpecVisit).                          *)
(***************************************************************************)

\* C11: WeaponKind::new gives Ok exactly for the ids of the kinds (0, 1, 2),
\* with new(k.id()) = k, and an error for every other id; reading a weapon
\* whose kind id is unknown ends with that error at the kind field: no later
\* field is read and the weapon, its kind and its definition are as before.
C11_UnknownKindAborts ==
    /\ \A k \in WeaponKind : WeaponKind_new(id(k)) = Ok(k)
    /\ \A n \in KindIds : WeaponKind_new(n).ok <=> n \in {0, 1, 2}
    /\ call.called =>
          /\ call.result.ok <=> call.region.KindId \in {0, 1, 2}
          /\ ~call.result.ok =>
                /\ call.result = WeaponKind_new(call.region.KindId)
                /\ call.read = <<"KindId">>
                /\ self.kind = call.before.kind
                /\ self.definition = call.before.definition
                /\ self = call.before
          /\ call.result.ok =>
                /\ call.read = WeaponFields
                /\ self.kind = WeaponKind_new(call.region.KindId).value

\* C11 witness: a region with an unknown kind id was read into a weapon of
\* another kind than the default, with other values in the later fields.
C11_Witness ==
    /\ call.called
    /\ call.region.KindId = 3
    /\ ~call.result.ok
    /\ call.before.kind = "PlasmaRifle"
    /\ call.region.Ammo # call.before.ammo


(***************************************************************************)
(* Further claims about the weapon state machine (Spec).                   *)
(***************************************************************************)

\* C12: last_shot_time never decreases, whatever try_shoot (at any time,
\* also one before the last shot), update, add_ammo and set_owner calls are
\* made.
C12_LastShotMonotone ==
    [][self'.last_shot_time >= self.last_shot_time]_vars

\* C12 witness: try_shoot was called, with ammo left, at a time before the
\* last shot.
C12_Witness ==
    /\ lastOp.op = "try_shoot"
    /\ hist.fires # <<>>
    /\ self.ammo > 0
    /\ self.last_shot_time - lastOp.time >= self.definition.shoot_interval

\* The step is a call of update.
IsUpdate == lastOp'.op = "update"

\* C17: for a weapon with a muzzle flash, a try_shoot that fires shows the
\* muzzle flash and the shot light and sets the timer to 0.075 (3); an
\* update takes its dt from the timer, hides both when the timer is then
\* <= 0 and leaves their visibility alone when it is still positive; so
\* after a fire both are visible until the dt of the updates since total
\* 0.075, and hidden from then on until the next fire.
C17_MuzzleFlashLifecycle ==
    /\ [][(IsTryShoot /\ lastOp'.shot /\ self.muzzle_flash) =>
            /\ scene'.muzzle_flash_visible
            /\ scene'.shot_light_visible
            /\ self'.muzzle_flash_timer = 3]_vars
    /\ [][(IsUpdate /\ self.muzzle_flash) =>
            /\ self'.muzzle_flash_timer
                  = self.muzzle_flash_timer - lastOp'.time
            /\ IF self'.muzzle_flash_timer <= 0
               THEN /\ ~scene'.muzzle_flash_visible
                    /\ ~scene'.shot_light_visible
               ELSE /\ scene'.muzzle_flash_visible
                         = scene.muzzle_flash_visible
                    /\ scene'.shot_light_visible
                         = scene.shot_light_visible]_vars
    /\ []((self.muzzle_flash /\ hist.fires # <<>>) =>
            IF hist.since >= 3
            THEN ~scene.muzzle_flash_visible /\ ~scene.shot_light_visible
            ELSE scene.muzzle_flash_visible /\ scene.shot_light_visible)

\* C17 witness: after a fire, an update of dt 0.025 left the flash visible
\* and the next one, of dt 0.05, hid it.
C17_Witness ==
    /\ self.muzzle_flash
    /\ hist.fires # <<>>
    /\ lastOp.op = "update"
    /\ lastOp.time = 2
    /\ hist.since = 3
    /\ ~scene.muzzle_flash_visible
    /\ ~scene.shot_light_visible

C13_AddAmmoExact ==
    call.called =>
        /\ ~panicked
        /\ ~u32_add(call.before, call.amount).overflow
        /\ call.ammo = u32_add(call.before, call.amount).sum
        /\ ~u32_less(call.ammo, call.before)


(***************************************************************************)
(* A further claim about the hit resolver (SpecRay).                       *)
(***************************************************************************)

\* C14: every Hit that ray_hit returns with an actor was made for a firing
\* weapon, has who = that weapon's owner, and an actor other than that
\* owner: the owner of the firing weapon is never the actor of a Hit.
C14_NoSelfDamage ==
    (rh.called /\ rh.result.hit # <<>>) =>
        LET h == rh.result.hit[1]
        IN  /\ h.actor # NONE =>
                  /\ is_some(rh.weapon)
                  /\ h.who = FiringOwner
                  /\ h.actor # FiringOwner
            /\ (is_some(rh.weapon) /\ FiringOwner # NONE) =>
                  h.actor # FiringOwner

\* C14 witness: the ray met the owner's collider, which was ignored, and
\* then an enemy's; the Hit names the enemy as actor and the owner as who.
C14_Witness ==
    /\ rh.called
    /\ rh.weapon = SelfHandle
    /\ FiringOwner = ActorHandle(1)
    /\ rh.query = <<Intersection(1, 2), Intersection(2, 5)>>
    /\ rh.ignored = 1
    /\ rh.result.hit = <<Hit(ActorHandle(2), ActorHandle(1),
                             Intersection(2, 5))>>


(***************************************************************************)
(* The claim about the direction of a shot (SpecShoot).                    *)
(***************************************************************************)

\* The direction a shot event carries: that of the projectile, or that
\* from the begin to the end of the ray, which is 1000 long.
Carried(event) ==
    IF event.type = "CreateProjectile" THEN event.direction
    ELSE [i \in 1 .. 3 |-> ((event.end[i] - event.begin[i]) \div 1000) * One]

\* The vector try_shoot starts from: the caller's, or else the look vector.
Given == IF call.direction = None THEN scene.look ELSE call.direction[1]

\* The unit vector along an axis vector.
Along(v) ==
    [i \in 1 .. 3 |-> IF v[i] > 0 THEN One ELSE IF v[i] < 0 THEN -One ELSE 0]

\* C19: whatever direction try_shoot is given, a Ready weapon fires, without
\* an error, and sends its two events; the direction the shot event carries
\* is never zero: it is the caller's direction, or without one the look
\* vector, normalized, and the z axis when that vector is zero within the
\* tolerance.
C19_DirectionNeverZero ==
    call.called =>
        /\ ~panicked
        /\ lastOp.shot <=> Ready(call.before, call.time)
        /\ lastOp.shot =>
              /\ Len(events) = 2
              /\ Carried(events[2]) # Origin
              /\ norm(Carried(events[2])) = One
              /\ Carried(events[2]) = IF norm(Given) <= EPSILON
                                      THEN Vector3_z
                                      ELSE Along(Given)

\* C19 witness: the caller gave no direction, the look vector was zero, and
\* the shot was sent along the z axis.
C19_Witness ==
    /\ call.called
    /\ call.direction = None
    /\ scene.look = Origin
    /\ lastOp.shot
    /\ Len(events) = 2
    /\ Carried(events[2]) = Vector3_z


(***************************************************************************)
(* The claims about one update (SpecUpdate).                               *)
(***************************************************************************)

\* The intersections of the last call that the laser sight keeps.
Kept ==
    {i \in 1 .. Len(call.intersections) :
        call.intersections[i].collider # call.ignored}

\* The nearest of them.
FirstKept == CHOOSE i \in Kept : \A j \in Kept : i <= j

\* The collider update is to pass: the first collider of the body of the
\* owner when the registry holds the owner, the default collider otherwise.
ExpectedIgnored ==
    IF call.before.owner \in call.actors
    THEN first_collider(get_body(call.before.owner))
    ELSE DefaultCollider

\* C15: update of a weapon whose owner is none or is not in the actor
\* registry completes: the recoil is damped, the timer is decremented, the
\* flash hidden once the timer is <= 0, and the laser sight updated with the
\* default collider ("no exclusion"); when the registry holds the owner the
\* laser sight is updated with the first collider of the owner's body.
C15_UpdateWithoutOwner ==
    (call.called /\ call.fn = "update") =>
        /\ ~panicked
        /\ call.ignored = ExpectedIgnored
        /\ self.offset = follow(call.before.offset, call.before.dest_offset)
        /\ scene.model_position = self.offset
        /\ self.muzzle_flash_timer = call.before.muzzle_flash_timer - call.dt
        /\ (self.muzzle_flash /\ self.muzzle_flash_timer <= 0) =>
              ~scene.muzzle_flash_visible /\ ~scene.shot_light_visible
        /\ LET laser == LaserSight_update(call.scene_before, scene.look,
                                          call.intersections, ExpectedIgnored)
           IN  /\ scene.ray_scale = laser.ray_scale
               /\ scene.tip_position = laser.tip_position

\* C15 witness: the owner of the weapon is not in the registry and the ray
\* met the owner's collider first: the laser sight stops there.
C15_Witness ==
    /\ call.called
    /\ call.fn = "update"
    /\ call.before.owner = ActorHandle(1)
    /\ call.actors = {ActorHandle(2)}
    /\ call.intersections = <<Intersection(1, 2), Intersection(3, 5)>>
    /\ call.ignored = DefaultCollider
    /\ scene.ray_scale = 2

\* C18 as stated: with an intersection kept the ray is scaled to the
\* distance of the first one kept and the tip is placed at its position;
\* with none kept, the scene is as it was.
C18_TipAtPosition ==
    (call.called /\ call.fn = "laser") =>
        IF Kept # {}
        THEN /\ scene.ray_scale = call.intersections[FirstKept].toi
             /\ scene.tip_position
                  = 10 * call.intersections[FirstKept].position
        ELSE scene = call.scene_before

\* C18 amended: with an intersection kept the ray is scaled to the distance
\* of the first one kept and the tip is placed 0.1 times the direction
\* before its position; with none kept, the scene is as it was.
C18_LaserFromFirstKept ==
    (call.called /\ call.fn = "laser") =>
        IF Kept # {}
        THEN /\ scene.ray_scale = call.intersections[FirstKept].toi
             /\ scene.tip_position
                  = 10 * call.intersections[FirstKept].position
                      - norm(scene.look) \div One
             /\ scene = [call.scene_before EXCEPT
                            !.ray_scale = scene.ray_scale,
                            !.tip_position = scene.tip_position]
        ELSE scene = call.scene_before

\* C18 witness: the nearest intersection was on the ignored collider and
\* the laser sight was put at the next one, the tip 0.1 before it.
C18_Witness ==
    /\ call.called
    /\ call.fn = "laser"
    /\ call.intersections = <<Intersection(1, 2), Intersection(3, 5)>>
    /\ call.ignored = 1
    /\ call.scene_before.ray_scale = 1
    /\ call.scene_before.tip_position = 0
    /\ scene.look = Vector3_z
    /\ scene.ray_scale = 5
    /\ scene.tip_position = 49


(***************************************************************************)
(* The claim about the container's update (SpecFrames).                    *)
(***************************************************************************)

\* The slots of the container that hold a weapon.
LiveSlots ==
    {i \in 1 .. Len(container.records) : container.records[i].payload # <<>>}

\* The step is a call of the container's update.
IsUpdateAll == lastOp'.op = "update_all"

\* C16: one call of the container's update updates the weapon of every
\* occupied slot exactly once, by rising slot index (the scene is left by
\* the weapon of the last occupied slot), and changes no other slot: a slot
\* emptied by free is not updated and stays empty.
C16_UpdateEachLiveOnce ==
    [][IsUpdateAll =>
        /\ Len(container'.records) = Len(container.records)
        /\ container'.free_stack = container.free_stack
        /\ \A i \in 1 .. Len(container.records) :
              IF i \in LiveSlots
              THEN LET w == container.records[i].payload[1]
                   IN  container'.records[i] =
                         [container.records[i] EXCEPT !.payload =
                            <<[w EXCEPT
                                 !.offset = follow(w.offset, w.dest_offset),
                                 !.muzzle_flash_timer = @ - lastOp'.time]>>]
              ELSE container'.records[i] = container.records[i]
        /\ Len(lastOp'.updated) = Cardinality(LiveSlots)
        /\ \A n \in 1 .. Len(lastOp'.updated) :
              /\ lastOp'.updated[n] + 1 \in LiveSlots
              /\ \A k \in 1 .. n - 1 :
                    lastOp'.updated[k] < lastOp'.updated[n]
        /\ LiveSlots # {} =>
              LET last == CHOOSE i \in LiveSlots : \A j \in LiveSlots : j <= i
              IN  scene'.model_position
                    = container'.records[last].payload[1].offset]_vars

\* C16 witness: the container's update ran over a container with a freed
\* slot before a live one, and the live weapon's timer went down by dt.
C16_Witness ==
    /\ lastOp.op = "update_all"
    /\ Len(container.records) = 2
    /\ container.records[1].payload = <<>>
    /\ container.records[2].payload # <<>>
    /\ lastOp.updated = <<1>>
    /\ container.records[2].payload[1].muzzle_flash_timer = -lastOp.time


(***************************************************************************)
(* The frame of update, set_owner and add_ammo (Spec).                     *)
(***************************************************************************)

\* C21: update leaves ammo, last_shot_time, owner and kind alone and sends
\* no event, so the weapon is Ready, or Empty, at the same times after it
\* as before; set_owner changes only owner and add_ammo changes only ammo.
C21_Frame ==
    /\ [][IsUpdate =>
            /\ self'.ammo = self.ammo
            /\ self'.last_shot_time = self.last_shot_time
            /\ self'.owner = self.owner
            /\ self'.kind = self.kind
            /\ events' = events
            /\ Empty(self') = Empty(self)
            /\ \A t \in Times : Ready(self', t) = Ready(self, t)]_vars
    /\ [][lastOp'.op = "set_owner" =>
            /\ self' = [self EXCEPT !.owner = self'.owner]
            /\ scene' = scene
            /\ events' = events]_vars
    /\ [][lastOp'.op = "add_ammo" =>
            /\ self' = [self EXCEPT !.ammo = self'.ammo]
            /\ scene' = scene
            /\ events' = events]_vars

\* C21 witness: a weapon that has an owner and was given ammo fired, and
\* was updated until its flash ran out while it was still cooling down.
C21_Witness ==
    /\ lastOp.op = "update"
    /\ hist.fires # <<>>
    /\ hist.added > 0
    /\ self.owner # NONE
    /\ self.ammo > 0
    /\ self.muzzle_flash
    /\ self.muzzle_flash_timer <= 0
    /\ ~Ready(self, self.last_shot_time + 1)

(***************************************************************************)
(* ray_hit without a firing weapon (SpecRay).                              *)
(***************************************************************************)

\* C22: when ray_hit is given no weapon, the container is not indexed and
\* every Hit is environment-classified (actor and who none), also when the
\* nearest collider kept belongs to an actor's body; and, whatever the
\* weapon, a Hit without an actor has who = none.
C22_NoWeaponNoActor ==
    rh.called =>
        /\ rh.weapon = NONE =>
              /\ ~rh.result.indexed
              /\ ~rh.result.panic
              /\ \A i \in 1 .. Len(rh.result.hit) :
                    /\ rh.result.hit[i].actor = NONE
                    /\ rh.result.hit[i].who = NONE
              /\ Qualifying # {} =>
                    rh.result.hit = <<Hit(NONE, NONE, rh.query[Nearest])>>
        /\ \A i \in 1 .. Len(rh.result.hit) :
              rh.result.hit[i].actor = NONE => rh.result.hit[i].who = NONE

\* C22 witness: no weapon was given, the nearest collider kept is that of
\* an actor's body, and the Hit is environment-classified there.
C22_Witness ==
    /\ rh.called
    /\ rh.weapon = NONE
    /\ rh.query = <<Intersection(3, 2), Intersection(2, 5)>>
    /\ rh.ignored = 3
    /\ ActorsOf(2) = {ActorHandle(2)}
    /\ rh.result.hit = <<Hit(NONE, NONE, Intersection(2, 5))>>

====
